---- MODULE Spec2Model ----
(***************************************************************************)
(* Model of pyprojects/cli.py: the four typer commands quote, guess, dice  *)
(* and ytdl.  One process invocation runs exactly one command handler to   *)
(* completion.  Every action is one step of a handler, translated from     *)
(* the handler's code.                                                     *)
(***************************************************************************)
EXTENDS Integers, Sequences, FiniteSets, TLC

VARIABLES
    cmd,         \* the command typer dispatched to ("none" before dispatch)
    pc,          \* position inside the handler
    args,        \* the handler's parameters
    out,         \* everything printed so far, in order
    exitStatus,  \* <<>> while running, <<code>> once the process has exited
    uncaught,    \* TRUE when an exception left the handler uncaught
    resp,        \* quote: what requests.get / raise_for_status / json did
    secret,      \* guess: the drawn number
    turn,        \* guess: value of the for-loop variable
    prompts,     \* guess: number of Prompt.ask calls made
    intGuesses,  \* guess: number of lines int() accepted
    session,     \* guess: "None", "AwaitingGuess", "Won" or "Lost"
    lastInput,   \* guess: result of int(raw) for the last line read
    results,     \* dice: the list `result` of every roll, in order
    totals,      \* dice: the list `totals`
    fs,          \* ytdl: what exists at each path of the file system
    ydl_opts     \* ytdl: the option dictionary handed to YoutubeDL

vars == <<cmd, pc, args, out, exitStatus, uncaught, resp, secret, turn,
          prompts, intGuesses, session, lastInput, results, totals, fs,
          ydl_opts>>

guessVars == <<secret, turn, prompts, intGuesses, session, lastInput>>
diceVars == <<results, totals>>
ytdlVars == <<fs, ydl_opts>>

(***************************************************************************)
(* Bounds of the model.                                                    *)
(***************************************************************************)
MaxVal == 3        \* low and high range over 0..MaxVal
MaxAttempts == 3   \* attempts ranges over -1..MaxAttempts
MaxCount == 2      \* count ranges over -1..MaxCount
MaxSides == 2      \* sides ranges over 0..MaxSides
MaxRolls == 2      \* rolls ranges over -1..MaxRolls

(***************************************************************************)
(* Helpers.                                                                *)
(***************************************************************************)
None == "<None>"

Msg(t, a) == [text |-> t, args |-> a]

Last(s) == s[Len(s)]

RECURSIVE Sum(_)
Sum(s) == IF s = <<>> THEN 0 ELSE Head(s) + Sum(Tail(s))

\* str() of a value interpolated into an f-string
Str(v) == IF v = None THEN "None" ELSE v

NoInput == [ok |-> FALSE, n |-> 0]

\* no HTTP exchange has taken place
NoResp == [outcome |-> "none", params |-> None,
           data |-> [isDict |-> FALSE, keys |-> {}]]


(***************************************************************************)
(* Initial state: the process has started, typer has not yet dispatched.   *)
(***************************************************************************)
Init ==
    /\ cmd = "none"
    /\ pc = "idle"
    /\ args = <<>>
    /\ out = <<>>
    /\ exitStatus = <<>>
    /\ uncaught = FALSE
    /\ resp = NoResp
    /\ secret = 0
    /\ turn = 0
    /\ prompts = 0
    /\ intGuesses = 0
    /\ session = "None"
    /\ lastInput = NoInput
    /\ results = <<>>
    /\ totals = <<>>
    /\ fs = <<>>
    /\ ydl_opts = <<>>

\* print(message); raise typer.Exit(code)
ExitWith(message, code) ==
    /\ out' = Append(out, message)
    /\ exitStatus' = <<code>>
    /\ pc' = "done"

\* the handler returns normally: typer ends the process with status 0
Return ==
    /\ exitStatus' = <<0>>
    /\ pc' = "done"

(***************************************************************************)
(* quote                                                                   *)
(***************************************************************************)
Tags == {None, "", "wisdom"}

\* JSON objects the API may answer with: any subset of the two fields
Payloads ==
    { [isDict |-> TRUE, keys |-> k] : k \in SUBSET {"content", "author"} }
        \cup { [isDict |-> FALSE, keys |-> {}] }

\* the text stored under a key of a well-formed answer
FieldText(key) == IF key = "content" THEN "Be yourself" ELSE "Anonymous"

\* dict.get(key): the value, or None when the key is missing
Get(data, key) == IF key \in data.keys THEN FieldText(key) ELSE None

\* params = {"tags": tag} if tag else None
Params(tag) == IF tag # None /\ tag # "" THEN [tags |-> tag] ELSE None

QuoteStart ==
    /\ pc = "idle"
    /\ \E tag \in Tags : args' = [tag |-> tag]
    /\ cmd' = "quote"
    /\ pc' = "q_import"
    /\ UNCHANGED <<out, exitStatus, uncaught, resp, guessVars, diceVars, ytdlVars>>

\* import requests raises
QuoteImportFails ==
    /\ pc = "q_import"
    /\ ExitWith(Msg("requests not installed", <<>>), 1)
    /\ UNCHANGED <<cmd, args, uncaught, resp, guessVars, diceVars, ytdlVars>>

QuoteImportOk ==
    /\ pc = "q_import"
    /\ pc' = "q_fetch"
    /\ UNCHANGED <<cmd, args, out, exitStatus, uncaught, resp, guessVars,
                   diceVars, ytdlVars>>

\* requests.get, raise_for_status or resp.json() raises, or the answer is
\* no JSON object so that data.get raises: caught by `except Exception`
QuoteFetchFails ==
    /\ pc = "q_fetch"
    /\ \E r \in {"get raised", "status raised", "json raised"} :
           resp' = [outcome |-> r, params |-> Params(args.tag),
                    data |-> [isDict |-> FALSE, keys |-> {}]]
    /\ ExitWith(Msg("Failed to fetch quote", <<>>), 1)
    /\ UNCHANGED <<cmd, args, uncaught, guessVars, diceVars, ytdlVars>>

QuoteFetchNotObject ==
    /\ pc = "q_fetch"
    /\ \E d \in {p \in Payloads : ~p.isDict} :
           resp' = [outcome |-> "ok", params |-> Params(args.tag), data |-> d]
    /\ ExitWith(Msg("Failed to fetch quote", <<>>), 1)
    /\ UNCHANGED <<cmd, args, uncaught, guessVars, diceVars, ytdlVars>>

\* the answer is a JSON object: both fields are read with .get and printed
QuoteDisplay ==
    /\ pc = "q_fetch"
    /\ \E d \in {p \in Payloads : p.isDict} :
         /\ resp' = [outcome |-> "ok", params |-> Params(args.tag), data |-> d]
         /\ out' = Append(out, Msg("quote", <<Str(Get(d, "content")),
                                             Str(Get(d, "author"))>>))
    /\ Return
    /\ UNCHANGED <<cmd, args, uncaught, guessVars, diceVars, ytdlVars>>

(***************************************************************************)
(* guess                                                                   *)
(***************************************************************************)
DigitChars == <<"0", "1", "2", "3", "4", "5", "6", "7", "8", "9">>

RECURSIVE Digits(_)
Digits(v) ==
    IF v < 10 THEN <<DigitChars[v + 1]>>
    ELSE Append(Digits(v \div 10), DigitChars[(v % 10) + 1])

\* the decimal text a player types for the integer v
Text(v) == IF v < 0 THEN <<"-">> \o Digits(0 - v) ELSE Digits(v)

\* lines that hold an integer: every value from below the least low to
\* above the greatest high, bare, with a blank before or after, with a
\* leading zero
IntLines ==
    UNION { { Text(v), <<" ">> \o Text(v), Text(v) \o <<" ">>,
              IF v < 0 THEN Text(v) ELSE <<"0">> \o Text(v) } :
            v \in (-1)..(MaxVal + 1) }

\* lines that hold none
BadLines ==
    { <<>>, <<" ">>, <<"-">>, <<"x">>, <<"1", "x">>, <<"-", " ", "1">>,
      <<"1", " ", "2">>, <<"-", "-", "1">>, <<"0", "-", "1">>, <<"1", ".", "0">> }

\* the lines Prompt.ask may return
Raws == IntLines \cup BadLines

IsDigit(c) == \E d \in 0..9 : DigitChars[d + 1] = c

DigitVal(c) == CHOOSE d \in 0..9 : DigitChars[d + 1] = c

RECURSIVE LStrip(_)
LStrip(s) == IF s # <<>> /\ Head(s) = " " THEN LStrip(Tail(s)) ELSE s

RECURSIVE RStrip(_)
RStrip(s) ==
    IF s # <<>> /\ s[Len(s)] = " " THEN RStrip(SubSeq(s, 1, Len(s) - 1)) ELSE s

RECURSIVE Decimal(_)
Decimal(s) ==
    IF s = <<>> THEN 0
    ELSE 10 * Decimal(SubSeq(s, 1, Len(s) - 1)) + DigitVal(s[Len(s)])

\* int(raw): surrounding blanks are dropped, then an optional sign and at
\* least one digit must remain; anything else raises ValueError (ok = FALSE)
ParseInt(raw) ==
    LET body == RStrip(LStrip(raw))
        neg == body # <<>> /\ Head(body) = "-"
        digits == IF neg THEN Tail(body) ELSE body
        valid == digits # <<>> /\ \A i \in 1..Len(digits) : IsDigit(digits[i])
    IN  IF valid
        THEN [ok |-> TRUE, n |-> IF neg THEN 0 - Decimal(digits) ELSE Decimal(digits)]
        ELSE NoInput

\* faulty variant of BadRange: equal bounds are let through
BadRange_Strict(low, high) == low > high

\* if low >= high
BadRange(low, high) == low >= high

\* random.randint(low, high)
RandInt(low, high) == low..high

\* faulty variant of TurnRange: one turn too many
TurnRange_OneMore(attempts) == 1..(attempts + 1)

\* range(1, attempts + 1)
TurnRange(attempts) == 1..attempts

\* faulty variant of Hint: the two words swapped
Hint_Flipped(n, s) == IF n < s THEN "lower" ELSE "higher"

\* hint = "higher" if n < secret else "lower"
Hint(n, s) == IF n < s THEN "higher" ELSE "lower"

\* the turns of the for loop that are still to run, the current one included
AttemptsRemaining == Cardinality({t \in TurnRange(args.attempts) : t >= turn})

GuessStart ==
    /\ pc = "idle"
    /\ \E low \in 0..MaxVal, high \in 0..MaxVal, attempts \in (-1)..MaxAttempts :
           args' = [low |-> low, high |-> high, attempts |-> attempts]
    /\ cmd' = "guess"
    /\ pc' = "g_check"
    /\ UNCHANGED <<out, exitStatus, uncaught, resp, guessVars, diceVars, ytdlVars>>

GuessBadRange ==
    /\ pc = "g_check"
    /\ BadRange(args.low, args.high)
    /\ ExitWith(Msg("low must be < high", <<>>), 1)
    /\ UNCHANGED <<cmd, args, uncaught, resp, guessVars, diceVars, ytdlVars>>

\* the secret is drawn, the introduction printed, the for loop entered
GuessDraw ==
    /\ pc = "g_check"
    /\ ~BadRange(args.low, args.high)
    /\ secret' \in RandInt(args.low, args.high)
    /\ out' = Append(out, Msg("Guess a number", <<args.low, args.high, args.attempts>>))
    /\ turn' = 1
    /\ session' = "AwaitingGuess"
    /\ pc' = "g_loop"
    /\ UNCHANGED <<cmd, args, exitStatus, uncaught, resp, prompts, intGuesses,
                   lastInput, diceVars, ytdlVars>>

\* one turn whose line int() rejects: warning, `continue`
GuessNotInteger ==
    /\ pc = "g_loop"
    /\ turn \in TurnRange(args.attempts)
    /\ \E raw \in Raws :
         /\ ~ParseInt(raw).ok
         /\ lastInput' = ParseInt(raw)
    /\ prompts' = prompts + 1
    /\ out' = Append(out, Msg("Please enter an integer", <<>>))
    /\ turn' = turn + 1
    /\ UNCHANGED <<cmd, pc, args, exitStatus, uncaught, resp, secret, intGuesses,
                   session, diceVars, ytdlVars>>

\* faulty variant of GuessCorrect: the report leaves the secret out
GuessCorrect_NoSecret ==
    /\ pc = "g_loop"
    /\ turn \in TurnRange(args.attempts)
    /\ \E raw \in Raws :
         /\ ParseInt(raw).ok
         /\ ParseInt(raw).n = secret
         /\ lastInput' = ParseInt(raw)
    /\ prompts' = prompts + 1
    /\ intGuesses' = intGuesses + 1
    /\ out' = Append(out, Msg("Correct! The number was", <<>>))
    /\ session' = "Won"
    /\ Return
    /\ UNCHANGED <<cmd, args, uncaught, resp, secret, turn, diceVars, ytdlVars>>

\* one turn whose line is the secret: success report, `return`
GuessCorrect ==
    /\ pc = "g_loop"
    /\ turn \in TurnRange(args.attempts)
    /\ \E raw \in Raws :
         /\ ParseInt(raw).ok
         /\ ParseInt(raw).n = secret
         /\ lastInput' = ParseInt(raw)
    /\ prompts' = prompts + 1
    /\ intGuesses' = intGuesses + 1
    /\ out' = Append(out, Msg("Correct! The number was", <<secret>>))
    /\ session' = "Won"
    /\ Return
    /\ UNCHANGED <<cmd, args, uncaught, resp, secret, turn, diceVars, ytdlVars>>

\* one turn whose line is another integer: hint, next turn
GuessWrong ==
    /\ pc = "g_loop"
    /\ turn \in TurnRange(args.attempts)
    /\ \E raw \in Raws :
         /\ ParseInt(raw).ok
         /\ ParseInt(raw).n # secret
         /\ lastInput' = ParseInt(raw)
         /\ out' = Append(out, Msg("Try", <<Hint(ParseInt(raw).n, secret)>>))
    /\ prompts' = prompts + 1
    /\ intGuesses' = intGuesses + 1
    /\ turn' = turn + 1
    /\ UNCHANGED <<cmd, pc, args, exitStatus, uncaught, resp, secret, session,
                   diceVars, ytdlVars>>

\* faulty variant of GuessOutOfAttempts: a loss ends with typer.Exit(1)
GuessOutOfAttempts_Error ==
    /\ pc = "g_loop"
    /\ turn \notin TurnRange(args.attempts)
    /\ session' = "Lost"
    /\ ExitWith(Msg("Out of attempts! The number was", <<secret>>), 1)
    /\ UNCHANGED <<cmd, args, uncaught, resp, secret, turn, prompts, intGuesses,
                   lastInput, diceVars, ytdlVars>>

\* the for loop is exhausted: the secret is revealed, the handler returns
GuessOutOfAttempts ==
    /\ pc = "g_loop"
    /\ turn \notin TurnRange(args.attempts)
    /\ out' = Append(out, Msg("Out of attempts! The number was", <<secret>>))
    /\ session' = "Lost"
    /\ Return
    /\ UNCHANGED <<cmd, args, uncaught, resp, secret, turn, prompts, intGuesses,
                   lastInput, diceVars, ytdlVars>>

(***************************************************************************)
(* dice                                                                    *)
(***************************************************************************)
\* faulty variant of DiceInvalid: a one-sided die is let through
DiceInvalid_Sides(count, sides, rolls) == count < 1 \/ sides < 1 \/ rolls < 1

\* if count < 1 or sides < 2 or rolls < 1
DiceInvalid(count, sides, rolls) == count < 1 \/ sides < 2 \/ rolls < 1

\* faulty variant of DieFaces: the faces start at 0
DieFaces_FromZero(sides) == 0..sides

\* random.randint(1, sides)
DieFaces(sides) == 1..sides

\* [random.randint(1, sides) for _ in range(count)]
RollOnce(count, sides) == [1..count -> DieFaces(sides)]

\* f"{num / den:.2f}", as a number of hundredths: the nearest one, the even
\* one when num / den lies exactly halfway between two
Format2f(num, den) ==
    LET q == (100 * num) \div den
        r == (100 * num) % den
    IN  IF 2 * r < den THEN q
        ELSE IF 2 * r > den THEN q + 1
        ELSE IF q % 2 = 0 THEN q ELSE q + 1

DiceStart ==
    /\ pc = "idle"
    /\ \E count \in (-1)..MaxCount, sides \in 0..MaxSides, rolls \in (-1)..MaxRolls :
           args' = [count |-> count, sides |-> sides, rolls |-> rolls]
    /\ cmd' = "dice"
    /\ pc' = "d_check"
    /\ UNCHANGED <<out, exitStatus, uncaught, resp, guessVars, diceVars, ytdlVars>>

DiceReject ==
    /\ pc = "d_check"
    /\ DiceInvalid(args.count, args.sides, args.rolls)
    /\ ExitWith(Msg("count>=1, sides>=2, rolls>=1 required", <<>>), 1)
    /\ UNCHANGED <<cmd, args, uncaught, resp, guessVars, diceVars, ytdlVars>>

\* totals = []
DiceAccept ==
    /\ pc = "d_check"
    /\ ~DiceInvalid(args.count, args.sides, args.rolls)
    /\ totals' = <<>>
    /\ results' = <<>>
    /\ pc' = "d_loop"
    /\ UNCHANGED <<cmd, args, out, exitStatus, uncaught, resp, guessVars, ytdlVars>>

\* one iteration of `for _ in range(rolls)`
DiceRoll ==
    /\ pc = "d_loop"
    /\ Len(totals) < args.rolls
    /\ \E result \in RollOnce(args.count, args.sides) :
         /\ results' = Append(results, result)
         /\ totals' = Append(totals, Sum(result))
         /\ out' = Append(out, Msg("Roll", <<result, Sum(result)>>))
    /\ UNCHANGED <<cmd, pc, args, exitStatus, uncaught, resp, guessVars, ytdlVars>>

\* after the loop, rolls > 1: the average line, then the handler returns
DiceAverage ==
    /\ pc = "d_loop"
    /\ Len(totals) >= args.rolls
    /\ args.rolls > 1
    /\ out' = Append(out, Msg("Average total", <<args.rolls,
                                                 Format2f(Sum(totals), Len(totals))>>))
    /\ Return
    /\ UNCHANGED <<cmd, args, uncaught, resp, guessVars, diceVars, ytdlVars>>

\* after the loop, rolls = 1: the handler returns
DiceReturn ==
    /\ pc = "d_loop"
    /\ Len(totals) >= args.rolls
    /\ ~(args.rolls > 1)
    /\ Return
    /\ UNCHANGED <<cmd, args, out, uncaught, resp, guessVars, diceVars, ytdlVars>>

(***************************************************************************)
(* ytdl                                                                    *)
(***************************************************************************)
Urls == {"https://a/v", "not a url"}

\* the --out option: absent, or one of two directories
OutOptions == {None, "videos", "a/b"}

\* outdir = Path(out) if out else Path.cwd()
OutDir(o) == IF o # None THEN o ELSE "cwd"

\* what may be found at outdir when the command starts
PathStates == {"dir", "absent", "file", "blocked"}

\* ydl_opts, with the additions of audio_only
YdlOpts(outdir, audio_only) ==
    [outtmpl |-> <<outdir, "%(title)s.%(ext)s">>,
     noplaylist |-> TRUE,
     quiet |-> FALSE,
     nocheckcertificate |-> TRUE,
     restrictfilenames |-> TRUE,
     format |-> IF audio_only THEN "bestaudio/best" ELSE None,
     postprocessors |->
         IF audio_only
         THEN << [key |-> "FFmpegExtractAudio", preferredcodec |-> "mp3",
                  preferredquality |-> "192"] >>
         ELSE <<>>]

YtdlStart ==
    /\ pc = "idle"
    /\ \E url \in Urls, audio_only \in BOOLEAN, o \in OutOptions :
           args' = [url |-> url, audio_only |-> audio_only, out |-> o]
    /\ \E st \in PathStates : fs' = [cwd |-> "dir", outdir |-> st]
    /\ fs'.outdir = "dir" \/ args'.out # None
    /\ cmd' = "ytdl"
    /\ pc' = "y_import"
    /\ UNCHANGED <<out, exitStatus, uncaught, resp, guessVars, diceVars, ydl_opts>>

\* import yt_dlp raises
YtdlImportFails ==
    /\ pc = "y_import"
    /\ ExitWith(Msg("yt-dlp not installed", <<>>), 1)
    /\ UNCHANGED <<cmd, args, uncaught, resp, guessVars, diceVars, ytdlVars>>

YtdlImportOk ==
    /\ pc = "y_import"
    /\ pc' = "y_mkdir"
    /\ UNCHANGED <<cmd, args, out, exitStatus, uncaught, resp, guessVars,
                   diceVars, ytdlVars>>

\* outdir.mkdir(parents=True, exist_ok=True) succeeds: the directory is there
\* already or is created; then ydl_opts is built
YtdlMkdirOk ==
    /\ pc = "y_mkdir"
    /\ fs.outdir \in {"dir", "absent"}
    /\ fs' = [fs EXCEPT !.outdir = "dir"]
    /\ ydl_opts' = YdlOpts(OutDir(args.out), args.audio_only)
    /\ pc' = "y_download"
    /\ UNCHANGED <<cmd, args, out, exitStatus, uncaught, resp, guessVars, diceVars>>

\* outdir.mkdir raises (a file is in the way, or no permission): the call is
\* outside every try block, so the exception leaves the handler and the
\* interpreter ends the process with a traceback and status 1
YtdlMkdirRaises ==
    /\ pc = "y_mkdir"
    /\ fs.outdir \in {"file", "blocked"}
    /\ uncaught' = TRUE
    /\ exitStatus' = <<1>>
    /\ pc' = "done"
    /\ UNCHANGED <<cmd, args, out, resp, guessVars, diceVars, ytdlVars>>

\* YoutubeDL(ydl_opts).download([url]) raises
YtdlDownloadFails ==
    /\ pc = "y_download"
    /\ ExitWith(Msg("Download failed", <<>>), 1)
    /\ UNCHANGED <<cmd, args, uncaught, resp, guessVars, diceVars, ytdlVars>>

YtdlDownloadOk ==
    /\ pc = "y_download"
    /\ Return
    /\ UNCHANGED <<cmd, args, out, uncaught, resp, guessVars, diceVars, ytdlVars>>

(***************************************************************************)
(* The program.                                                            *)
(***************************************************************************)
Next ==
    \/ QuoteStart \/ QuoteImportFails \/ QuoteImportOk
    \/ QuoteFetchFails \/ QuoteFetchNotObject \/ QuoteDisplay
    \/ GuessStart \/ GuessBadRange \/ GuessDraw
    \/ GuessNotInteger \/ GuessCorrect \/ GuessWrong \/ GuessOutOfAttempts
    \/ DiceStart \/ DiceReject \/ DiceAccept
    \/ DiceRoll \/ DiceAverage \/ DiceReturn
    \/ YtdlStart \/ YtdlImportFails \/ YtdlImportOk
    \/ YtdlMkdirOk \/ YtdlMkdirRaises \/ YtdlDownloadFails \/ YtdlDownloadOk

Spec == Init /\ [][Next]_vars

\* The handler is sequential code and every line read from the terminal
\* arrives: a step that can be taken is taken.
LiveSpec == Init /\ [][Next]_vars /\ WF_vars(Next)

(***************************************************************************)
(* Properties.                                                             *)
(***************************************************************************)
InGuess == cmd = "guess" /\ session # "None"

\* the indices of the printed lines with the given text
Lines(t) == { i \in DOMAIN out : out[i].text = t }

ErrorTexts == {"requests not installed", "Failed to fetch quote",
               "low must be < high", "count>=1, sides>=2, rolls>=1 required",
               "yt-dlp not installed", "Download failed"}

\* C1: a line that is no integer never consumes an attempt: the attempts
\* remaining are the attempts granted minus the integer guesses made, so a
\* game is Lost only after `attempts` integer guesses.
C1_NonIntegerKeepsAttempts ==
    InGuess =>
        /\ session = "AwaitingGuess" =>
               AttemptsRemaining = Cardinality(1..args.attempts) - intGuesses
        /\ session = "Lost" => intGuesses >= args.attempts

\* C2: a successful answer whose JSON object lacks `content` ends quote with
\* the failure line and exit status 1; no quote is displayed.
C2_MissingContentFails ==
    (cmd = "quote" /\ pc = "done" /\ resp.outcome = "ok" /\ resp.data.isDict
        /\ "content" \notin resp.data.keys) =>
        /\ exitStatus = <<1>>
        /\ Lines("quote") = {}
        /\ Last(out).text = "Failed to fetch quote"

\* C3: no failure leaves a handler uncaught: a failing command ends with
\* exactly one printed error line and an exit status.
C3_NothingEscapesHandler ==
    /\ ~uncaught
    /\ (pc = "done" /\ exitStatus = <<1>>) =>
           /\ out # <<>>
           /\ Last(out).text \in ErrorTexts
           /\ Cardinality(UNION { Lines(t) : t \in ErrorTexts }) = 1

\* C4: guess starts a game only when low < high.  With low >= high it ends
\* with the error line and status 1, no secret drawn, no prompt issued; with
\* low < high the secret lies in [low, high] and never changes.
C4_GameOnlyWhenLowBelowHigh ==
    /\ [](cmd = "guess" /\ pc # "g_check" =>
            IF args.low >= args.high
            THEN /\ pc = "done"
                 /\ exitStatus = <<1>>
                 /\ Len(out) = 1 /\ out[1].text = "low must be < high"
                 /\ session = "None"
                 /\ prompts = 0
            ELSE /\ session # "None"
                 /\ args.low <= secret /\ secret <= args.high)
    /\ [][InGuess => (secret' = secret)]_vars

C4_Witness ==
    /\ cmd = "guess" /\ pc = "done"
    /\ args.low = args.high
    /\ exitStatus = <<1>>

\* C5: an integer guess equal to the secret wins and ends the game; any
\* other gets "higher" exactly when it is below the secret and "lower"
\* exactly when it is above, costs one attempt and leaves the game awaiting
\* a guess.  Nothing happens after Won or Lost.
C5_GuessResponse ==
    /\ [][(cmd = "guess" /\ prompts' = prompts + 1 /\ lastInput'.ok) =>
            /\ session = "AwaitingGuess"
            /\ intGuesses' = intGuesses + 1
            /\ IF lastInput'.n = secret
               THEN /\ session' = "Won"
                    /\ pc' = "done"
                    /\ Last(out').text = "Correct! The number was"
               ELSE /\ Len(out') = Len(out) + 1
                    /\ Last(out').text = "Try"
                    /\ (Last(out').args = <<"higher">>) <=> (lastInput'.n < secret)
                    /\ (Last(out').args = <<"lower">>) <=> (lastInput'.n > secret)
                    /\ AttemptsRemaining' = AttemptsRemaining - 1
                    /\ session' = "AwaitingGuess"
                    /\ pc' = "g_loop"]_vars
    /\ [][(session \in {"Won", "Lost"}) => UNCHANGED vars]_vars

C5_Witness ==
    /\ cmd = "guess" /\ session = "Won"
    /\ \E i \in Lines("Try") : out[i].args = <<"higher">>
    /\ \E i \in Lines("Try") : out[i].args = <<"lower">>

\* C6 as claimed: the success report states the number of turns used.
C6_ReportStatesTurnsUsed ==
    (cmd = "guess" /\ session = "Won") =>
        \E i \in DOMAIN Last(out).args : Last(out).args[i] = turn

\* C6 as amended: the success report states the secret, and nothing else.
C6_ReportStatesSecret ==
    (cmd = "guess" /\ session = "Won") =>
        /\ Last(out).text = "Correct! The number was"
        /\ Last(out).args = <<secret>>

C6_Witness ==
    /\ cmd = "guess" /\ session = "Won"
    /\ turn = 2 /\ secret # turn

\* C7: a game whose attempts run out without a correct guess ends Lost: the
\* last line reveals the secret, the exit status is 0, and no guess of the
\* game was the secret.  A finished game is Won or Lost.
C7_LostRevealsSecret ==
    InGuess =>
        /\ session = "Lost" =>
               /\ pc = "done"
               /\ exitStatus = <<0>>
               /\ Last(out).text = "Out of attempts! The number was"
               /\ Last(out).args = <<secret>>
               /\ Lines("Correct! The number was") = {}
               /\ ~(lastInput.ok /\ lastInput.n = secret)
               /\ AttemptsRemaining = 0
        /\ pc = "done" => session \in {"Won", "Lost"}
        /\ (session = "AwaitingGuess" /\ AttemptsRemaining = 0) =>
               ENABLED GuessOutOfAttempts

C7_Witness ==
    /\ cmd = "guess" /\ session = "Lost"
    /\ args.attempts = 2 /\ intGuesses = 2
    /\ args.low = 1 /\ args.high = 3 /\ secret = 2
    /\ exitStatus = <<0>>

\* C8: dice rejects count < 1, sides < 2 or rolls < 1 with the error line
\* and status 1 and rolls nothing; every other input ends with status 0.
C8_DiceValidation ==
    (cmd = "dice" /\ pc # "d_check") =>
        IF args.count < 1 \/ args.sides < 2 \/ args.rolls < 1
        THEN /\ pc = "done"
             /\ exitStatus = <<1>>
             /\ Len(out) = 1
             /\ out[1].text = "count>=1, sides>=2, rolls>=1 required"
             /\ results = <<>> /\ totals = <<>>
        ELSE /\ exitStatus # <<1>>
             /\ pc = "done" => exitStatus = <<0>>

C8_Witness ==
    /\ cmd = "dice" /\ pc = "done"
    /\ args.count >= 1 /\ args.sides = 1 /\ args.rolls >= 1
    /\ exitStatus = <<1>>

\* C9: for valid inputs dice prints exactly `rolls` roll lines, each with
\* `count` values in [1, sides] and their sum as the total; the average line
\* is printed if and only if rolls > 1, after all rolls, and shows the sum
\* of the totals divided by rolls (to the nearest hundredth).
C9_DiceResults ==
    (cmd = "dice" /\ pc \in {"d_loop", "done"} /\ exitStatus # <<1>>) =>
        /\ Lines("Roll") = 1..Len(totals)
        /\ Len(totals) <= args.rolls
        /\ pc = "done" => Len(totals) = args.rolls
        /\ \A i \in Lines("Roll") :
             /\ Len(out[i].args[1]) = args.count
             /\ \A j \in 1..args.count : out[i].args[1][j] \in 1..args.sides
             /\ out[i].args[2] = Sum(out[i].args[1])
             /\ args.count <= out[i].args[2]
             /\ out[i].args[2] <= args.count * args.sides
        /\ Lines("Average total") # {} <=> (pc = "done" /\ args.rolls > 1)
        /\ \A i \in Lines("Average total") :
             LET S == Sum([k \in 1..args.rolls |-> out[k].args[2]])
                 d == 100 * S - out[i].args[2] * args.rolls
             IN  /\ i = args.rolls + 1
                 /\ i = Len(out)
                 /\ 2 * d <= args.rolls
                 /\ 2 * d >= 0 - args.rolls

C9_Witness ==
    /\ cmd = "dice" /\ pc = "done"
    /\ args.rolls = 2 /\ args.count = 2
    /\ Lines("Average total") # {}
    /\ Last(out).args[2] = 350

\* C10: a started game issues at most `attempts` prompts, whatever the
\* lines, and then is Won or Lost; with attempts <= 0 it issues none and is
\* Lost at once, the secret revealed, the exit status 0.
C10_BoundedByAttempts ==
    /\ [](InGuess =>
            /\ prompts <= (IF args.attempts > 0 THEN args.attempts ELSE 0)
            /\ (args.attempts <= 0 /\ pc = "done") =>
                   /\ session = "Lost"
                   /\ prompts = 0
                   /\ exitStatus = <<0>>
                   /\ Len(out) = 2
                   /\ Last(out).args = <<secret>>)
    /\ (session = "AwaitingGuess") ~> (session \in {"Won", "Lost"})

C10_Witness ==
    /\ cmd = "guess" /\ session = "Lost"
    /\ prompts = args.attempts
    /\ 0 < intGuesses /\ intGuesses < prompts

====
